---- MODULE Spec2Model ----
(***************************************************************************)
(* Streaming core of ShuaiTravelAgent.                                     *)
(*                                                                         *)
(*   agent/src/server.py        AgentServicer.StreamMessage: the handler   *)
(*                              (serving thread) and run_agent (worker     *)
(*                              thread), joined by two queues, one event   *)
(*                              and one error slot                         *)
(*   agent/src/core/travel_agent.py  ReActTravelAgent.process_stream       *)
(*   agent/src/core/react_agent.py   ReActAgent.run (the loop, the         *)
(*                              think-stream callback slot)                *)
(*   agent/src/memory/manager.py     MemoryManager.add_message             *)
(*   web/src/routes/chat.py     generate_chat_stream: RPC frames -> SSE    *)
(*                                                                         *)
(* And, each on its own, with its own specification:                       *)
(*   travel_agent.py   process_with_mode and process_stream   SpecModes    *)
(*   memory/manager.py MemoryManager                          SpecMemory   *)
(*   config_manager.py, routes/model.py   the model list      SpecModels   *)
(*   llm_client.py     LLMClient.chat                         SpecChat     *)
(*   llm_client.py     LLMClient.chat_stream             SpecChatStream    *)
(*   react_agent.py    run, _think, _should_stop, _act        SpecReact    *)
(*   react_agent.py    _extract_action, execute's check      SpecExtract  *)
(*   travel_agent.py   _process_plan_mode's steps            SpecPlan     *)
(*   shuai_travel_agent/app.py   the session map              SpecSessions *)
(*                                                                         *)
(* One AgentServicer owns one ReActTravelAgent, hence one ReActAgent, one  *)
(* MemoryManager and one think-stream callback slot, shared by every       *)
(* request the gRPC thread pool serves.                                    *)
(*                                                                         *)
(* Values.  Frame and event contents are tuples of naturals:               *)
(*   <<>>       the empty string                                           *)
(*   <<r, k>>   the text of the k-th thought of the run of request r       *)
(*   <<n>>      the n-th answer token of a run                             *)
(*   <<c>>      an error text, c = 0 for the empty string, 1 otherwise     *)
(*   <<s>>      a session id                                               *)
(***************************************************************************)
EXTENDS Integers, Sequences, FiniteSets, TLC

\* ---------------------------------------------------------------- bounds
\* ReActAgent(max_steps=...) ranges over 1..MaxSteps.
MaxSteps == 3
\* The LLM configuration's max_tokens: what one chat_stream call yields at most.
MaxTokens == 3
\* The same two parameters where a second request or the gateway takes part.
SmallSteps == 2
SmallTokens == 1
\* Seconds the clock advances per Tick, and where it stops.
TickSeconds == 15
MaxTime == 45
\* The capacity the bounded-queue requirement is checked against.
QueueCapacity == 1
\* The clock of the runs that outlast the request timeout: step and stop.
LongTick == 60
LongMaxTime == 180
\* Blanks in front of and behind a message: up to this many each.
MaxPad == 1
\* Strings one chat_stream call yields at most, where the modes are compared.
MaxStreamTokens == 2
\* add_message calls and archived sessions of one MemoryManager.
MaxAdds == 11
MaxArchives == 3
\* MemoryManager(max_long_term_memory=...): the limit of the managers studied.
MaxLongTerm == 2
\* LLMClient(config): max_retries ranges over 0..MaxRetries.
MaxRetries == 4
\* Lines of one upstream SSE response.
MaxLines == 3
\* Runs one ReActAgent serves, and the steps of the longest plan.
MaxRuns == 2
MaxPlan == 2
\* The most parameters a plan step carries.
MaxParams == 2
\* The session ids the legacy app hands out, the chat turns counted per
\* session, and its clock: the step between two requests and the last instant.
MaxSessions == 2
MaxMessages == 1
ClockTick == 43200
MaxClock == 172800

\* ------------------------------------------------------- program constants
\* queue.Queue() without maxsize: 0, which the library reads as "infinite".
queue_maxsize == 0
\* deque(maxlen=max_working_memory), agent_config default.
max_working_memory == 10
\* if elapsed_since_heartbeat >= 30
HeartbeatInterval == 30
\* timeout_seconds = 120
timeout_seconds == 120
\* if len(request.message) > 5000
MaxMessageLength == 5000

\* The requests of one behaviour; the gRPC pool serves up to 10 at a time.
Requests == {1, 2}
\* The session ids a client may send.
Sessions == {1, 2}
\* The session id of a request that names none (the empty string).
NoSession == 0
\* The id SessionService.create_session hands out.
NewSession == Cardinality(Sessions) + 1
\* error texts by emptiness: 0 is '', 1 any non-empty text
ErrorTexts == 0..1
\* The callback slot holding None.
NoCallback == 0
SESSION_TIMEOUT == 86400

\* A message is leading blanks, a core that begins and ends with a character
\* that is no whitespace (or is empty), and trailing blanks; a message with an
\* empty core is blanks only.
Message(lead, core, trail) == [lead |-> lead, core |-> core, trail |-> trail]
\* A message as a client would type it.
SomeMessage == Message(0, 1, 0)
\* The lengths a core is drawn from: around nothing and around the limit.
CoreLengths ==
    {0, 1, MaxMessageLength - 2, MaxMessageLength - 1, MaxMessageLength, MaxMessageLength + 1}
Messages == [lead : 0..MaxPad, core : CoreLengths, trail : 0..MaxPad]

VARIABLES
    \* --- per request: the serving thread of StreamMessage
    hpc,              \* position of the handler generator
    frames,           \* the StreamChunks yielded so far
    answer_started,
    thinking_sent,
    \* --- per request: the objects shared by handler and worker
    answer_queue,
    thinking_queue,
    done_event,
    error_holder,     \* <<>> for None, <<c>> for an error text
    \* --- per request: the worker thread (run_agent -> process_stream -> run)
    wpc,
    req_session,      \* request.session_id
    thought_count,    \* thoughts this run has produced
    tokens_sent,      \* tokens this run passed to answer_callback, in order
    ctx_pref,         \* context['user_preference'] the run was started with
    \* --- the one ReActTravelAgent of the servicer
    think_stream_callback,   \* react_agent._think_stream_callback
    current_step,            \* react_agent.state.current_step
    has_action,              \* react_agent.action_history is not empty
    conversation_history,    \* memory_manager.conversation_history
    user_preference,         \* sessions whose text the preference reflects
    max_steps,               \* react_agent.max_steps
    max_tokens,              \* llm_client's max_tokens
    \* --- the gateway's generate_chat_stream (serving request 1)
    gpc,
    sse,              \* SSE events yielded so far
    gw_read,          \* RPC frames taken from the iterator
    gw_session,
    gw_message,       \* request.message of the HTTP request
    gw_supplied,      \* request.session_id or ""
    http_status,      \* status of the HTTP response, 0 before there is one
    session_store,    \* ids the SessionService has created
    disconnected,     \* request.is_disconnected()
    now,              \* datetime.now(), in seconds since the stream began
    last_heartbeat,
    last_emit,        \* when the latest SSE event was yielded
    \* --- one call of process_with_mode or process_stream
    m_mode,           \* which entry point and mode serves the call
    m_pc,             \* where the call stands
    m_answer,         \* the local variable answer
    m_acc,            \* accumulated_answer
    m_tokens,         \* the arguments answer_callback was called with, in order
    m_done,           \* the arguments done_callback was called with, in order
    m_memory,         \* the answers this call appended to the memory as assistant messages
    \* --- one MemoryManager, called directly
    long_term_memory,
    added_since_clear,   \* the messages appended since the history was last cleared
    messages_added,      \* add_message calls so far
    archives_made,       \* _archive_session calls so far
    \* --- the model list: one ConfigManager and the /models route
    environ,          \* os.environ: the value of the one variable, <<>> when unset
    models_config,    \* ConfigManager.models_config: model_id -> api_key
    config_manager,   \* routes/model.py _config_manager is set
    models_served,    \* model ids of the latest /models response
    \* --- one call of LLMClient.chat
    chat_pc,
    chat_max_retries, \* self.max_retries
    chat_attempts,    \* how each attempt made so far has ended, in order
    chat_result,      \* what chat returned, <<>> before it returns
    \* --- one call of LLMClient.chat_stream
    cs_pc,
    cs_upstream,      \* the lines the endpoint sends, in order
    cs_fault,         \* the number of lines after which the transport fails, 0: never
    cs_read,          \* lines read so far
    cs_yielded,       \* strings yielded so far
    \* --- one ReActAgent, its runs one after the other
    ra_pc,
    ra_runs,          \* runs started so far
    ra_max_steps,     \* self.max_steps
    ra_step,          \* self.state.current_step
    last_action,      \* self.action_history[-1], NoAction while the history is empty
    thought,          \* the thought of the current iteration
    ra_plan,          \* the decision list of the thought of iteration 0
    ra_outcome,       \* how the executor call of the latest Act ended
    ra_notified,      \* the statuses the action callbacks saw the latest Action in
    ra_history,       \* self.state.history
    ra_result,        \* what run returned, <<>> while it runs
    \* --- one plan step on its way to a tool: _extract_action, then execute
    ea_pc,
    ea_tool,          \* the step's action
    ea_params,        \* the step's params, in the order the plan gives them
    ea_parameters,    \* Action.parameters
    \* --- one call of _process_plan_mode, from the parsed plan on
    pl_pc,
    pl_steps,         \* the action of each step of the plan
    pl_invoked,       \* the tools whose executor was invoked, in order
    pl_history,       \* history
    pl_answers,       \* the arguments answer_callback was called with
    \* --- shuai_travel_agent/app.py: the session map and its endpoints
    sessions,         \* sessions: session id -> name, model_id, message_count, last_active
    se_now,           \* datetime.now(), in seconds
    se_created,       \* session ids handed out so far
    se_last_op        \* the endpoint that ran last

hvars == <<hpc, frames, answer_started, thinking_sent>>
qvars == <<answer_queue, thinking_queue, done_event, error_holder>>
wvars == <<wpc, req_session, thought_count, tokens_sent, ctx_pref>>
avars == <<think_stream_callback, current_step, has_action, conversation_history, user_preference>>
svars == <<gw_message, gw_supplied, http_status, session_store>>
gvars == <<gpc, sse, gw_read, gw_session, svars, disconnected, now, last_heartbeat, last_emit>>
mvars == <<m_mode, m_pc, m_answer, m_acc, m_tokens, m_done, m_memory>>
\* The components that are exercised one at a time, each on its own.
memvars == <<long_term_memory, added_since_clear, messages_added, archives_made>>
cfvars == <<environ, models_config, config_manager, models_served>>
chatvars == <<chat_pc, chat_max_retries, chat_attempts, chat_result>>
csvars == <<cs_pc, cs_upstream, cs_fault, cs_read, cs_yielded>>
ravars == <<ra_pc, ra_runs, ra_max_steps, ra_step, last_action, thought, ra_plan,
            ra_outcome, ra_notified, ra_history, ra_result>>
eavars == <<ea_pc, ea_tool, ea_params, ea_parameters>>
plvars == <<pl_pc, pl_steps, pl_invoked, pl_history, pl_answers>>
sevars == <<sessions, se_now, se_created, se_last_op>>
parts == <<mvars, memvars, cfvars, chatvars, csvars, ravars, eavars, plvars, sevars>>
cvars == <<max_steps, max_tokens, parts>>
\* The streaming core and its configuration.
core == <<hvars, qvars, wvars, avars, gvars, max_steps, max_tokens>>
\* What the steps of one component leave alone.
mrest == <<core, memvars, cfvars, chatvars, csvars, ravars, eavars, plvars, sevars>>
memrest == <<hvars, qvars, wvars, gvars, max_steps, max_tokens, think_stream_callback,
             current_step, has_action, user_preference, mvars, cfvars, chatvars, csvars, ravars, eavars, plvars, sevars>>
cfrest == <<core, mvars, memvars, chatvars, csvars, ravars, eavars, plvars, sevars>>
chatrest == <<core, mvars, memvars, cfvars, csvars, ravars, eavars, plvars, sevars>>
csrest == <<core, mvars, memvars, cfvars, chatvars, ravars, eavars, plvars, sevars>>
rarest == <<core, mvars, memvars, cfvars, chatvars, csvars, eavars, plvars, sevars>>
earest == <<core, mvars, memvars, cfvars, chatvars, csvars, ravars, plvars, sevars>>
plrest == <<core, mvars, memvars, cfvars, chatvars, csvars, ravars, eavars, sevars>>
serest == <<core, mvars, memvars, cfvars, chatvars, csvars, ravars, eavars, plvars>>
vars == <<hvars, qvars, wvars, avars, cvars, gvars>>

\* ---------------------------------------------------------------- helpers
Frame(t, c, last) == [type |-> t, content |-> c, is_last |-> last]

TerminalTypes == {"done", "error"}

Types(fs) == [i \in 1..Len(fs) |-> fs[i].type]

\* queue.Queue.put blocks while the queue is full; maxsize <= 0 never is.
QueueFull(q) == queue_maxsize > 0 /\ Len(q) >= queue_maxsize

\* `if error_holder["error"]:` - None and '' are both falsy.
ErrorSet(e) == e # <<>> /\ e[1] > 0

\* A list in the place of the deque: append, and nothing falls out.
ListAppend(d, m) == Append(d, m)

\* deque(maxlen=n).append: the oldest entry falls out.
DequeAppend(d, m) ==
    LET a == Append(d, m)
    IN  IF Len(a) > max_working_memory THEN Tail(a) ELSE a

\* MemoryManager.add_message(role, content) on behalf of the run of request r.
\* A Message holds role and content; a user message's content is tagged here
\* with the session of the request that brought it, an assistant message's not.
\* user_preference.update_from_text accumulates what user texts mention.
AddMessage(role, r) ==
    /\ conversation_history' =
           DequeAppend(conversation_history,
               [role |-> role, session |-> IF role = "user" THEN req_session[r] ELSE NoSession])
    /\ user_preference' =
           IF role = "user" THEN user_preference \cup {req_session[r]} ELSE user_preference

\* ------------------------------------------------------------------- Init
\* Everything but the configuration: no request has arrived yet.
InitState ==
    /\ hpc = [r \in Requests |-> "idle"]
    /\ frames = [r \in Requests |-> <<>>]
    /\ answer_started = [r \in Requests |-> FALSE]
    /\ thinking_sent = [r \in Requests |-> FALSE]
    /\ answer_queue = [r \in Requests |-> <<>>]
    /\ thinking_queue = [r \in Requests |-> <<>>]
    /\ done_event = [r \in Requests |-> FALSE]
    /\ error_holder = [r \in Requests |-> <<>>]
    /\ wpc = [r \in Requests |-> "idle"]
    /\ req_session = [r \in Requests |-> NoSession]
    /\ thought_count = [r \in Requests |-> 0]
    /\ tokens_sent = [r \in Requests |-> <<>>]
    /\ ctx_pref = [r \in Requests |-> {}]
    /\ think_stream_callback = NoCallback
    /\ current_step = 0
    /\ has_action = FALSE
    /\ conversation_history = <<>>
    /\ user_preference = {}
    /\ gpc = "idle"
    /\ sse = <<>>
    /\ gw_read = 0
    /\ gw_session = NoSession
    /\ gw_message = Message(0, 0, 0)
    /\ gw_supplied = NoSession
    /\ http_status = 0
    /\ session_store = {}
    /\ disconnected = FALSE
    /\ now = 0
    /\ last_heartbeat = 0
    /\ last_emit = 0
    /\ m_mode = "none"
    /\ m_pc = "idle"
    /\ m_answer = <<>>
    /\ m_acc = <<>>
    /\ m_tokens = <<>>
    /\ m_done = <<>>
    /\ m_memory = <<>>
    /\ long_term_memory = <<>>
    /\ added_since_clear = <<>>
    /\ messages_added = 0
    /\ archives_made = 0
    /\ environ = <<>>
    /\ models_config = <<>>
    /\ config_manager = FALSE
    /\ models_served = {}
    /\ chat_pc = "idle"
    /\ chat_max_retries = 0
    /\ chat_attempts = <<>>
    /\ chat_result = <<>>
    /\ cs_pc = "idle"
    /\ cs_upstream = <<>>
    /\ cs_fault = 0
    /\ cs_read = 0
    /\ cs_yielded = <<>>
    /\ ra_pc = "idle"
    /\ ra_runs = 0
    /\ ra_max_steps = 1
    /\ ra_step = 0
    /\ last_action = [tool_name |-> "", status |-> "NONE"]
    /\ thought = [type |-> "NONE", confident |-> FALSE, decision |-> <<"None">>]
    /\ ra_plan = <<>>
    /\ ra_outcome = "none"
    /\ ra_notified = <<>>
    /\ ra_history = <<>>
    /\ ra_result = <<>>
    /\ ea_pc = "idle"
    /\ ea_tool = ""
    /\ ea_params = <<>>
    /\ ea_parameters = <<>>
    /\ pl_pc = "idle"
    /\ pl_steps = <<>>
    /\ pl_invoked = <<>>
    /\ pl_history = <<>>
    /\ pl_answers = <<>>
    /\ sessions = <<>>
    /\ se_now = 0
    /\ se_created = 0
    /\ se_last_op = "none"

\* ------------------------------------------------- StreamMessage: handler
\* The gRPC server hands the request to a pool thread.
RpcArrive(r, s) ==
    /\ hpc[r] = "idle"
    /\ hpc' = [hpc EXCEPT ![r] = "start"]
    /\ req_session' = [req_session EXCEPT ![r] = s]
    /\ UNCHANGED <<gvars, cvars, frames, answer_started, thinking_sent, qvars, wpc, thought_count,
                   tokens_sent, ctx_pref, avars>>

\* yield StreamChunk(chunk_type="thinking_start", ...)
HStart(r) ==
    /\ hpc[r] = "start"
    /\ frames' = [frames EXCEPT ![r] = Append(@, Frame("thinking_start", <<>>, FALSE))]
    /\ hpc' = [hpc EXCEPT ![r] = "setup"]
    /\ UNCHANGED <<gvars, cvars, answer_started, thinking_sent, qvars, wvars, avars>>

\* The callback the handler installs on the shared ReActAgent: its own on_think.
InstalledCallback(r) == r

\* Locals, queues, set_think_stream_callback(on_think), thread.start().
HSetup(r) ==
    /\ hpc[r] = "setup"
    /\ think_stream_callback' = InstalledCallback(r)
    /\ wpc' = [wpc EXCEPT ![r] = "start"]
    /\ hpc' = [hpc EXCEPT ![r] = "poll_think"]
    /\ UNCHANGED <<gvars, cvars, frames, answer_started, thinking_sent, qvars, req_session, thought_count,
                   tokens_sent, ctx_pref, current_step, has_action, conversation_history,
                   user_preference>>

\* thinking_queue.get(timeout=0.05): one thought per pass of the loop, or Empty.
HPollThinking(r) ==
    /\ hpc[r] = "poll_think"
    /\ IF thinking_queue[r] # <<>>
       THEN /\ frames' = [frames EXCEPT ![r] =
                   Append(@, Frame("thinking_chunk", Head(thinking_queue[r]), FALSE))]
            /\ thinking_queue' = [thinking_queue EXCEPT ![r] = Tail(@)]
            /\ thinking_sent' = [thinking_sent EXCEPT ![r] = TRUE]
       ELSE UNCHANGED <<frames, thinking_queue, thinking_sent>>
    /\ hpc' = [hpc EXCEPT ![r] = "poll_answer"]
    /\ UNCHANGED <<gvars, cvars, answer_started, answer_queue, done_event, error_holder, wvars, avars>>

\* The frames one dequeued answer chunk produces (the same block in the loop
\* and in the drain).
AnswerFrames(started, sent, chunk) ==
    (IF started THEN <<>>
     ELSE (IF sent THEN <<Frame("thinking_end", <<>>, FALSE)>> ELSE <<>>)
          \o <<Frame("answer_start", <<>>, FALSE)>>)
    \o <<Frame("answer", chunk, FALSE)>>

TakeAnswer(r) ==
    /\ frames' = [frames EXCEPT ![r] =
           @ \o AnswerFrames(answer_started[r], thinking_sent[r], Head(answer_queue[r]))]
    /\ answer_queue' = [answer_queue EXCEPT ![r] = Tail(@)]
    /\ answer_started' = [answer_started EXCEPT ![r] = TRUE]

\* answer_queue.get(timeout=0.05)
HPollAnswer(r) ==
    /\ hpc[r] = "poll_answer"
    /\ IF answer_queue[r] # <<>>
       THEN TakeAnswer(r)
       ELSE UNCHANGED <<frames, answer_queue, answer_started>>
    /\ hpc' = [hpc EXCEPT ![r] = "check_done"]
    /\ UNCHANGED <<gvars, cvars, thinking_sent, thinking_queue, done_event, error_holder, wvars, avars>>

\* The loop without its drain: `break` as soon as done is seen.
AfterPollsNoDrain(done) == IF done THEN "cleanup" ELSE "poll_think"

\* Where the loop goes after the two polls: `if done_event.is_set():` enters
\* the drain of answer_queue, otherwise the loop starts over.
AfterPolls(done) == IF done THEN "drain" ELSE "poll_think"

HCheckDone(r) ==
    /\ hpc[r] = "check_done"
    /\ hpc' = [hpc EXCEPT ![r] = AfterPolls(done_event[r])]
    /\ UNCHANGED <<gvars, cvars, frames, answer_started, thinking_sent, qvars, wvars, avars>>

\* while not answer_queue.empty(): get_nowait() ...; break
HDrain(r) ==
    /\ hpc[r] = "drain"
    /\ IF answer_queue[r] # <<>>
       THEN /\ TakeAnswer(r)
            /\ UNCHANGED hpc
       ELSE /\ hpc' = [hpc EXCEPT ![r] = "cleanup"]
            /\ UNCHANGED <<frames, answer_queue, answer_started>>
    /\ UNCHANGED <<gvars, cvars, thinking_sent, thinking_queue, done_event, error_holder, wvars, avars>>

\* self.agent.react_agent.set_think_stream_callback(None)
HCleanup(r) ==
    /\ hpc[r] = "cleanup"
    /\ think_stream_callback' = NoCallback
    /\ hpc' = [hpc EXCEPT ![r] = "check_error"]
    /\ UNCHANGED <<gvars, cvars, frames, answer_started, thinking_sent, qvars, wvars, current_step,
                   has_action, conversation_history, user_preference>>

\* The frames of the error exit.
ErrorFrames(started, e) ==
    (IF started THEN <<>> ELSE <<Frame("thinking_end", <<>>, FALSE)>>)
    \o <<Frame("error", e, TRUE)>>

\* The error exit without its `return`: control falls through to the done frame.
AfterErrorFallsThrough == "send_done"

\* `return` after the error frame.
AfterError == "finished"

\* if error_holder["error"]: ... yield error; return
HCheckError(r) ==
    /\ hpc[r] = "check_error"
    /\ IF ErrorSet(error_holder[r])
       THEN /\ frames' = [frames EXCEPT ![r] =
                   @ \o ErrorFrames(answer_started[r], error_holder[r])]
            /\ hpc' = [hpc EXCEPT ![r] = AfterError]
       ELSE /\ hpc' = [hpc EXCEPT ![r] = "send_done"]
            /\ UNCHANGED frames
    /\ UNCHANGED <<gvars, cvars, answer_started, thinking_sent, qvars, wvars, avars>>

\* The done frame built like the frames before it, is_last left False.
DoneFrameNotLast == Frame("done", <<>>, FALSE)

DoneFrame == Frame("done", <<>>, TRUE)

\* yield StreamChunk(chunk_type="done", content="", is_last=True)
HSendDone(r) ==
    /\ hpc[r] = "send_done"
    /\ frames' = [frames EXCEPT ![r] = Append(@, DoneFrame)]
    /\ hpc' = [hpc EXCEPT ![r] = "finished"]
    /\ UNCHANGED <<gvars, cvars, answer_started, thinking_sent, qvars, wvars, avars>>

Handler(r) ==
    \/ HStart(r)
    \/ HSetup(r)
    \/ HPollThinking(r)
    \/ HPollAnswer(r)
    \/ HCheckDone(r)
    \/ HDrain(r)
    \/ HCleanup(r)
    \/ HCheckError(r)
    \/ HSendDone(r)

\* ------------------------------ run_agent: process_stream and ReActAgent.run
\* on_done(result): the error slot is written when success is false, then the
\* event is set.  e is <<>> for a successful result.
OnDone(r, e) ==
    /\ error_holder' = [error_holder EXCEPT ![r] = IF e = <<>> THEN @ ELSE e]
    /\ done_event' = [done_event EXCEPT ![r] = TRUE]

\* process_stream: add_message('user', user_input); context = {...,
\* 'user_preference': memory_manager.get_user_preference()}
WStart(r) ==
    /\ wpc[r] = "start"
    /\ AddMessage("user", r)
    /\ ctx_pref' = [ctx_pref EXCEPT ![r] = user_preference']
    /\ wpc' = [wpc EXCEPT ![r] = "run_init"]
    /\ UNCHANGED <<gvars, cvars, hvars, qvars, req_session, thought_count, tokens_sent,
                   think_stream_callback, current_step, has_action>>

\* run: state.task, state.context, state.current_step = 0, state.history = []
WRunInit(r) ==
    /\ wpc[r] = "run_init"
    /\ current_step' = 0
    /\ wpc' = [wpc EXCEPT ![r] = "loop"]
    /\ UNCHANGED <<gvars, cvars, hvars, qvars, req_session, thought_count, tokens_sent, ctx_pref,
                   think_stream_callback, has_action, conversation_history, user_preference>>

\* while self.state.current_step < self.max_steps:
WLoop(r) ==
    /\ wpc[r] = "loop"
    /\ wpc' = [wpc EXCEPT ![r] = IF current_step < max_steps THEN "think" ELSE "completed"]
    /\ UNCHANGED <<gvars, cvars, hvars, qvars, req_session, thought_count, tokens_sent, ctx_pref, avars>>

\* _observe, _think: the thought is appended to thought_history and
\* _notify_thought runs on_thought, which records it in the memory.
WThink(r) ==
    /\ wpc[r] = "think"
    /\ thought_count' = [thought_count EXCEPT ![r] = @ + 1]
    /\ AddMessage("assistant", r)
    /\ wpc' = [wpc EXCEPT ![r] = "stream_thought"]
    /\ UNCHANGED <<gvars, cvars, hvars, qvars, req_session, tokens_sent, ctx_pref,
                   think_stream_callback, current_step, has_action>>

\* if self._think_stream_callback: self._think_stream_callback(content, elapsed)
\* The slot is read when the thought exists; the callback found there is an
\* on_think closure, which puts into the queue of the request that installed it.
WStreamThought(r) ==
    /\ wpc[r] = "stream_thought"
    /\ IF think_stream_callback # NoCallback
       THEN /\ ~QueueFull(thinking_queue[think_stream_callback])
            /\ thinking_queue' = [thinking_queue EXCEPT ![think_stream_callback] =
                   Append(@, <<r, thought_count[r]>>)]
       ELSE UNCHANGED thinking_queue
    /\ wpc' = [wpc EXCEPT ![r] = "should_stop"]
    /\ UNCHANGED <<gvars, cvars, hvars, answer_queue, done_event, error_holder, req_session,
                   thought_count, tokens_sent, ctx_pref, avars>>

\* _should_stop: conditions 1 and 2 need a last Action that succeeded (its
\* tool and the thought's confidence are inputs here); condition 3 is
\* current_step >= max_steps - 1.
MayStop(stop) ==
    \/ stop /\ has_action
    \/ stop = (current_step >= max_steps - 1)

WShouldStop(r) ==
    /\ wpc[r] = "should_stop"
    /\ \E stop \in BOOLEAN :
          /\ MayStop(stop)
          /\ wpc' = [wpc EXCEPT ![r] = IF stop THEN "completed" ELSE "act"]
    /\ UNCHANGED <<gvars, cvars, hvars, qvars, req_session, thought_count, tokens_sent, ctx_pref, avars>>

\* _act, _evaluate, _update_state (current_step += 1), _record_history.
\* _act appends the Action to action_history and _notify_action runs
\* on_action, which records it in the memory.
WAct(r) ==
    /\ wpc[r] = "act"
    /\ has_action' = TRUE
    /\ current_step' = current_step + 1
    /\ AddMessage("assistant", r)
    /\ wpc' = [wpc EXCEPT ![r] = "loop"]
    /\ UNCHANGED <<gvars, cvars, hvars, qvars, req_session, thought_count, tokens_sent, ctx_pref,
                   think_stream_callback>>

\* How ToolRegistry.execute awaits an executor: asyncio.wait_for(executor(),
\* timeout) for a coroutine function, asyncio.to_thread(executor) for any other.
ExecutorKinds == {"async", "sync"}

Awaiting(kind) == IF kind = "async" THEN "exec_async" ELSE "exec_sync"

\* _act with a tool whose executor does not return within ToolInfo.timeout:
\* the Action is appended to action_history and announced while RUNNING, then
\* tool_registry.execute awaits the executor.
WSlowTool(r) ==
    /\ wpc[r] = "act"
    /\ has_action' = TRUE
    /\ AddMessage("assistant", r)
    /\ \E kind \in ExecutorKinds : wpc' = [wpc EXCEPT ![r] = Awaiting(kind)]
    /\ UNCHANGED <<gvars, cvars, hvars, qvars, req_session, thought_count, tokens_sent, ctx_pref,
                   think_stream_callback, current_step>>

\* The timeout elapses under asyncio.wait_for: asyncio.TimeoutError, which
\* execute turns into TimeoutError and _act into a failed Action; then
\* _evaluate, _update_state (current_step += 1), _record_history.
WToolTimeout(r) ==
    /\ wpc[r] = "exec_async"
    /\ current_step' = current_step + 1
    /\ wpc' = [wpc EXCEPT ![r] = "loop"]
    /\ UNCHANGED <<gvars, cvars, hvars, qvars, req_session, thought_count, tokens_sent, ctx_pref,
                   think_stream_callback, has_action, conversation_history, user_preference>>

\* The timeout elapses under asyncio.to_thread, which takes no timeout: the
\* await goes on.
WToolOverdue(r) ==
    /\ wpc[r] = "exec_sync"
    /\ wpc' = [wpc EXCEPT ![r] = "exec_overdue"]
    /\ UNCHANGED <<gvars, cvars, hvars, qvars, req_session, thought_count, tokens_sent, ctx_pref, avars>>

\* The executor returns after its timeout, if it ever does: the Action
\* succeeds, then _evaluate, _update_state, _record_history.
WToolReturns(r) ==
    /\ wpc[r] = "exec_overdue"
    /\ current_step' = current_step + 1
    /\ wpc' = [wpc EXCEPT ![r] = "loop"]
    /\ UNCHANGED <<gvars, cvars, hvars, qvars, req_session, thought_count, tokens_sent, ctx_pref,
                   think_stream_callback, has_action, conversation_history, user_preference>>

\* An exception inside the loop: run returns {"success": False, "error": str(e)},
\* process_stream passes result.get('error', ...) on to done_callback.
WRunFails(r) ==
    /\ wpc[r] \in {"think", "act"}
    /\ \E c \in ErrorTexts : OnDone(r, <<c>>)
    /\ wpc' = [wpc EXCEPT ![r] = "finished"]
    /\ UNCHANGED <<gvars, cvars, hvars, answer_queue, thinking_queue, req_session, thought_count,
                   tokens_sent, ctx_pref, avars>>

\* if result.get('success'): ... memory_manager.add_message('assistant', answer)
WBeginAnswer(r) ==
    /\ wpc[r] = "completed"
    /\ AddMessage("assistant", r)
    /\ wpc' = [wpc EXCEPT ![r] = "tokens"]
    /\ UNCHANGED <<gvars, cvars, hvars, qvars, req_session, thought_count, tokens_sent, ctx_pref,
                   think_stream_callback, current_step, has_action>>

\* for token in llm_client.chat_stream(...): answer_callback(token)
\* on_answer_chunk puts the token into this request's answer_queue.
WToken(r) ==
    /\ wpc[r] = "tokens"
    /\ Len(tokens_sent[r]) < max_tokens
    /\ ~QueueFull(answer_queue[r])
    /\ LET token == <<Len(tokens_sent[r]) + 1>>
       IN  /\ tokens_sent' = [tokens_sent EXCEPT ![r] = Append(@, token)]
           /\ answer_queue' = [answer_queue EXCEPT ![r] = Append(@, token)]
    /\ UNCHANGED <<gvars, cvars, hvars, thinking_queue, done_event, error_holder, wpc, req_session,
                   thought_count, ctx_pref, avars>>

\* The stream is exhausted: done_callback(final_result) with success True.
WDone(r) ==
    /\ wpc[r] = "tokens"
    /\ OnDone(r, <<>>)
    /\ wpc' = [wpc EXCEPT ![r] = "finished"]
    /\ UNCHANGED <<gvars, cvars, hvars, answer_queue, thinking_queue, req_session, thought_count,
                   tokens_sent, ctx_pref, avars>>

\* except Exception as e: done_callback({"success": False,
\* "error": f"处理失败: {str(e)}"}): a text that is never empty.
WStreamFails(r) ==
    /\ wpc[r] \in {"completed", "tokens"}
    /\ OnDone(r, <<1>>)
    /\ wpc' = [wpc EXCEPT ![r] = "finished"]
    /\ UNCHANGED <<gvars, cvars, hvars, answer_queue, thinking_queue, req_session, thought_count,
                   tokens_sent, ctx_pref, avars>>

\* The run and the answer phase when nothing raises.
WorkerRun(r) ==
    \/ WStart(r)
    \/ WRunInit(r)
    \/ WLoop(r)
    \/ WThink(r)
    \/ WStreamThought(r)
    \/ WShouldStop(r)
    \/ WAct(r)
    \/ WBeginAnswer(r)
    \/ WDone(r)

\* The steps the worker thread takes by itself, timers included; what the
\* LLM, a tool or a fault contributes is left out.
WorkerProgress(r) ==
    \/ WorkerRun(r)
    \/ WToolTimeout(r)
    \/ WToolOverdue(r)

Worker(r) ==
    \/ WorkerRun(r)
    \/ WToken(r)
    \/ WSlowTool(r)
    \/ WToolTimeout(r)
    \/ WToolOverdue(r)
    \/ WToolReturns(r)
    \/ WRunFails(r)
    \/ WStreamFails(r)

\* ------------------------------------------- gateway: generate_chat_stream
Event(t, c) == [type |-> t, content |-> c]

Emit(evs) ==
    /\ sse' = sse \o evs
    /\ last_emit' = IF evs = <<>> THEN last_emit ELSE now

\* len(message)
MsgLen(m) == m.lead + m.core + m.trail

\* message.strip()
Strip(m) == Message(0, m.core, 0)

\* `not s` for a string: true of the empty string only.
IsEmpty(m) == MsgLen(m) = 0

\* The length test with the limit itself refused.
TooLongInclusive(m) == MsgLen(m) >= MaxMessageLength

\* if len(request.message) > 5000
TooLong(m) == MsgLen(m) > MaxMessageLength

\* The two tests of stream_chat that raise HTTPException(status_code=422).
Rejected(m) ==
    \/ IsEmpty(m) \/ IsEmpty(Strip(m))
    \/ TooLong(m)

\* stream_chat: a 422, or a StreamingResponse over
\* generate_chat_stream(request.message, request.session_id or "", ...).
StreamChat(m, sid) ==
    /\ gpc = "idle"
    /\ gw_message' = m
    /\ IF Rejected(m)
       THEN /\ http_status' = 422
            /\ gpc' = "rejected"
            /\ UNCHANGED gw_supplied
       ELSE /\ http_status' = 200
            /\ gpc' = "accepted"
            /\ gw_supplied' = sid
    /\ UNCHANGED <<sse, last_emit, gw_read, gw_session, session_store, disconnected, now, last_heartbeat,
                   hvars, qvars, wvars, avars, cvars>>

\* The session the stream runs under, with a new one made for every request.
SessionAlwaysNew(sid) == NewSession

\* if not session_id: session_id = (await create_session())['session_id']
SessionFor(sid) == IF sid = NoSession THEN NewSession ELSE sid

\* if not session_id: create_session(); yield the session_id event
GwStart(sid) ==
    /\ gpc = "accepted"
    /\ gw_session' = SessionFor(sid)
    /\ session_store' = IF gw_session' = sid THEN session_store ELSE session_store \cup {gw_session'}
    /\ Emit(<<Event("session_id", <<gw_session'>>)>>)
    /\ gpc' = "open"
    /\ UNCHANGED <<gw_read, gw_message, gw_supplied, http_status, disconnected, now, last_heartbeat,
                   hvars, qvars, wvars, avars, cvars>>

\* _ensure_proto_imported(); get_grpc_stub(); stub.StreamMessage(request_msg);
\* last_heartbeat = datetime.now()
GwOpen ==
    /\ gpc = "open"
    /\ gpc' = "read"
    /\ last_heartbeat' = now
    /\ UNCHANGED <<sse, last_emit, gw_read, gw_session, svars, disconnected, now, hvars, qvars, wvars, avars, cvars>>

\* The recovery sequence cut like the error branch of the loop: no done event.
RecoveryEventsNoDone ==
    << Event("reasoning_chunk", <<1>>), Event("reasoning_end", <<>>),
       Event("answer_start", <<>>), Event("chunk", <<1>>) >>

\* The five events of `except grpc.RpcError` and of the last `except Exception`;
\* both texts carry a fixed prefix, so neither is empty.
RecoveryEvents ==
    << Event("reasoning_chunk", <<1>>), Event("reasoning_end", <<>>),
       Event("answer_start", <<>>), Event("chunk", <<1>>), Event("done", <<>>) >>

\* except Exception as e: silent when str(e) mentions "disconnected" or
\* "closed", the five recovery events otherwise.
GwException(mentions_closed) ==
    /\ gpc = "open"
    /\ IF mentions_closed
       THEN /\ gpc' = "aborted"
            /\ UNCHANGED <<sse, last_emit>>
       ELSE /\ gpc' = "finished"
            /\ Emit(RecoveryEvents)
    /\ UNCHANGED <<gw_read, gw_session, svars, disconnected, now, last_heartbeat, hvars, qvars, wvars, avars, cvars>>

\* The heartbeat check at the head of the loop body.
HeartbeatDue == now - last_heartbeat >= HeartbeatInterval

HeartbeatEvents == IF HeartbeatDue THEN <<Event("heartbeat", <<>>)>> ELSE <<>>

\* The if/elif chain over chunk_type.
Translate(f) ==
    CASE f.type = "thinking_start" -> <<Event("reasoning_start", <<>>)>>
      [] f.type = "thinking_chunk" -> <<Event("reasoning_chunk", f.content)>>
      [] f.type = "thinking_end"   -> <<Event("reasoning_end", <<>>)>>
      [] f.type = "answer_start"   -> <<Event("answer_start", <<>>)>>
      [] f.type = "answer"         -> <<Event("chunk", f.content)>>
      [] f.type = "error"          -> << Event("reasoning_chunk", <<1>>),
                                         Event("reasoning_end", <<>>),
                                         Event("answer_start", <<>>),
                                         Event("chunk", <<1>>) >>
      [] f.type = "done"           -> <<Event("done", <<>>)>>
      [] OTHER                     -> <<>>

\* `break` in the done branch, and `if is_last: break`.
LeavesLoop(f) == f.type = "done" \/ f.is_last

\* The poll without a request object: `if request and ...` never breaks.
PollDisconnectSkipped == FALSE

\* `request and await request.is_disconnected()`, polled when a frame arrives.
PollDisconnect == disconnected

\* One pass of `for chunk in chunk_iterator:` with a frame at hand.
GwFrame ==
    /\ gpc = "read"
    /\ gw_read < Len(frames[1])
    /\ gw_read' = gw_read + 1
    /\ LET f == frames[1][gw_read + 1]
       IN  IF PollDisconnect
           THEN /\ gpc' = "cut"
                /\ UNCHANGED <<sse, last_emit, last_heartbeat>>
           ELSE /\ Emit(HeartbeatEvents \o Translate(f))
                /\ last_heartbeat' = IF HeartbeatDue THEN now ELSE last_heartbeat
                /\ gpc' = IF LeavesLoop(f) THEN "finished" ELSE "read"
    /\ UNCHANGED <<gw_session, svars, disconnected, now, hvars, qvars, wvars, avars, cvars>>

\* grpc.RpcError is raised, by the call that opens the stream or by the
\* iterator in the middle of it.
RpcFails ==
    /\ gpc \in {"open", "read"}
    /\ gpc' = "rpc_error"
    /\ UNCHANGED <<sse, last_emit, gw_read, gw_session, svars, disconnected, now, last_heartbeat, hvars, qvars, wvars,
                   avars, cvars>>

\* except grpc.RpcError as e: the five events, and the generator returns.
GwRpcError ==
    /\ gpc = "rpc_error"
    /\ Emit(RecoveryEvents)
    /\ gpc' = "finished"
    /\ UNCHANGED <<gw_read, gw_session, svars, disconnected, now, last_heartbeat, hvars, qvars, wvars, avars, cvars>>

\* except asyncio.CancelledError / BrokenPipeError, ConnectionResetError, OSError
GwCancelled ==
    /\ gpc \in {"open", "read"}
    /\ disconnected
    /\ gpc' = "cut"
    /\ UNCHANGED <<sse, last_emit, gw_read, gw_session, svars, disconnected, now, last_heartbeat, hvars, qvars, wvars,
                   avars, cvars>>

\* The browser closes the connection.
ClientDisconnect ==
    /\ gpc \in {"open", "read"}
    /\ ~disconnected
    /\ disconnected' = TRUE
    /\ UNCHANGED <<gpc, sse, last_emit, gw_read, gw_session, svars, now, last_heartbeat, hvars, qvars, wvars, avars,
                   cvars>>

\* Time passes while the gateway waits for the next frame.
Tick ==
    /\ gpc = "read"
    /\ now + TickSeconds <= MaxTime
    /\ now' = now + TickSeconds
    /\ UNCHANGED <<gpc, sse, last_emit, gw_read, gw_session, svars, disconnected, last_heartbeat, hvars, qvars, wvars,
                   avars, cvars>>

\* Time passes in long strides: a request that takes minutes.
TickLong ==
    /\ gpc = "read"
    /\ now + LongTick <= LongMaxTime
    /\ now' = now + LongTick
    /\ UNCHANGED <<gpc, sse, last_emit, gw_read, gw_session, svars, disconnected, last_heartbeat, hvars, qvars, wvars,
                   avars, cvars>>

\* A chat request with a message that passes, with or without a session id.
HttpChat == \E sid \in {NoSession, 1} : StreamChat(SomeMessage, sid)

\* Any chat request.
HttpRequest == \E m \in Messages, sid \in {NoSession, 1} : StreamChat(m, sid)

\* generate_chat_stream up to the point where the Agent's frames are awaited,
\* and its exits from there.
GatewayAlone ==
    \/ GwStart(gw_supplied)
    \/ GwOpen
    \/ \E b \in BOOLEAN : GwException(b)
    \/ RpcFails
    \/ GwRpcError
    \/ GwCancelled
    \/ ClientDisconnect

GatewaySteps ==
    \/ HttpChat
    \/ GatewayAlone
    \/ GwOpen
    \/ \E b \in BOOLEAN : GwException(b)
    \/ GwFrame

Gateway ==
    \/ GatewaySteps
    \/ Tick

\* The RPC reaches the Agent once the gateway has opened it.
RpcDelivered ==
    /\ gpc = "read"
    /\ RpcArrive(1, gw_session)

\* ------------------------------------------ one request at the Agent
Next ==
    \/ RpcArrive(1, 1)
    \/ Handler(1)
    \/ Worker(1)

Init == InitState /\ max_steps \in 1..MaxSteps /\ max_tokens = MaxTokens

Spec == Init /\ [][Next]_vars

\* Both threads of the request are scheduled again and again; a tool's
\* executor owes nothing.
SpecFair ==
    /\ Spec
    /\ WF_vars(RpcArrive(1, 1))
    /\ WF_vars(Handler(1))
    /\ WF_vars(WorkerProgress(1))

\* ----------------------------------- one request, browser to Agent and back
NextGateway ==
    \/ Gateway
    \/ RpcDelivered
    \/ Handler(1)
    \/ Worker(1)

InitSmall == InitState /\ max_steps = SmallSteps /\ max_tokens = SmallTokens

SpecGateway == InitSmall /\ [][NextGateway]_vars

\* ------------------------------ chat requests, the Agent out of reach
NextHttp ==
    \/ HttpRequest
    \/ GatewayAlone
    \/ Tick

SpecHttp == InitSmall /\ [][NextHttp]_vars

\* ------------------------- one request that may outlast the request timeout
NextTimeout ==
    \/ GatewaySteps
    \/ TickLong
    \/ RpcDelivered
    \/ Handler(1)
    \/ Worker(1)

SpecTimeout == InitSmall /\ [][NextTimeout]_vars

\* ------------------------------------- two requests, one after the other
\* The second request arrives when the first has been served to its end.
ArriveAfter(s) ==
    /\ hpc[1] = "finished"
    /\ wpc[1] = "finished"
    /\ RpcArrive(2, s)

NextSeq ==
    \/ RpcArrive(1, 1)
    \/ \E s \in Sessions : ArriveAfter(s)
    \/ \E r \in Requests : Handler(r) \/ Worker(r)

SpecSeq == InitSmall /\ [][NextSeq]_vars

\* ------------------------------------------ two requests in flight together
\* Request 1 is the first to arrive; request 2 carries its session id or another.
\* The runs raise nothing and the LLM's answer stream is empty.
ArriveSecond(s) ==
    /\ hpc[1] # "idle"
    /\ RpcArrive(2, s)

NextConc ==
    \/ RpcArrive(1, 1)
    \/ \E s \in Sessions : ArriveSecond(s)
    \/ \E r \in Requests : Handler(r) \/ WorkerRun(r)

SpecConc == InitSmall /\ [][NextConc]_vars

\* ------------------------ travel_agent.py: process_with_mode, process_stream
\* A string is the tuple of its characters.
\* The three modes of process_with_mode, and process_stream.
ProcessingModes == {"direct", "react", "plan", "stream"}

\* What one chat_stream call may yield, one string at a time: the client
\* yields no empty string.
StreamTokens == {<<1>>, <<2>>, <<1, 2>>}

\* What _extract_answer, or the plan's answer generation, may return.
ExtractedAnswers == {<<>>, <<3>>}

RECURSIVE Concat(_)
Concat(ss) == IF ss = <<>> THEN <<>> ELSE Head(ss) \o Concat(Tail(ss))

SuccessResult(answer) == [success |-> TRUE, answer |-> answer]
FailureResult == [success |-> FALSE]

\* The modes that call done_callback when the request succeeds, when the
\* ReAct run or the plan generation fails, and when an exception is raised.
DoneOnSuccess == {"direct", "plan", "stream"}
DoneOnFailure == {"stream"}
DoneOnException == {"stream"}

\* answer = extracted, where the stream is about to overwrite it.
FinalAnswerExtracted(extracted, accumulated) == extracted

\* answer = accumulated_answer
FinalAnswer(extracted, accumulated) == accumulated

ProcessBegin(mode) ==
    /\ m_pc = "idle"
    /\ m_mode' = mode
    /\ m_pc' = "begin"
    /\ UNCHANGED <<m_answer, m_acc, m_tokens, m_done, m_memory, mrest>>

\* Direct mode goes straight to the streaming LLM call.
DirectStream ==
    /\ m_pc = "begin"
    /\ m_mode = "direct"
    /\ m_acc' = <<>>
    /\ m_pc' = "streaming"
    /\ UNCHANGED <<m_mode, m_answer, m_tokens, m_done, m_memory, mrest>>

\* react_agent.run returned success: the answer is extracted from the
\* history and appended to the memory, then the streaming LLM call begins.
RunSucceeds(extracted) ==
    /\ m_pc = "begin"
    /\ m_mode \in {"react", "stream"}
    /\ m_answer' = extracted
    /\ m_acc' = <<>>
    /\ m_pc' = "streaming"
    /\ m_memory' = Append(m_memory, extracted)
    /\ UNCHANGED <<m_mode, m_tokens, m_done, mrest>>

\* react_agent.run returned success = False.
RunFails ==
    /\ m_pc = "begin"
    /\ m_mode \in {"react", "stream"}
    /\ m_done' = IF m_mode \in DoneOnFailure THEN Append(m_done, FailureResult) ELSE m_done
    /\ m_pc' = "returned"
    /\ UNCHANGED <<m_mode, m_answer, m_acc, m_tokens, m_memory, mrest>>

\* Plan mode: the planning chat call failed.
PlanFails ==
    /\ m_pc = "begin"
    /\ m_mode = "plan"
    /\ m_done' = IF m_mode \in DoneOnFailure THEN Append(m_done, FailureResult) ELSE m_done
    /\ m_pc' = "returned"
    /\ UNCHANGED <<m_mode, m_answer, m_acc, m_tokens, m_memory, mrest>>

\* Plan mode: the plan ran; the whole answer goes out as one token.
PlanSucceeds(answer) ==
    /\ m_pc = "begin"
    /\ m_mode = "plan"
    /\ m_answer' = answer
    /\ m_tokens' = Append(m_tokens, answer)
    /\ m_done' = IF m_mode \in DoneOnSuccess THEN Append(m_done, SuccessResult(answer)) ELSE m_done
    /\ m_pc' = "returned"
    /\ m_memory' = Append(m_memory, answer)
    /\ UNCHANGED <<m_mode, m_acc, mrest>>

\* for token in chat_stream(...): accumulated_answer += token; answer_callback(token)
StreamToken(token) ==
    /\ m_pc = "streaming"
    /\ Len(m_tokens) < MaxStreamTokens
    /\ m_acc' = m_acc \o token
    /\ m_tokens' = Append(m_tokens, token)
    /\ UNCHANGED <<m_mode, m_pc, m_answer, m_done, m_memory, mrest>>

\* The stream is exhausted: direct mode appends the answer to the memory, the
\* result is built and the function returns.
StreamEnds ==
    /\ m_pc = "streaming"
    /\ m_answer' = FinalAnswer(m_answer, m_acc)
    /\ m_done' = IF m_mode \in DoneOnSuccess THEN Append(m_done, SuccessResult(m_answer')) ELSE m_done
    /\ m_pc' = "returned"
    /\ m_memory' = IF m_mode = "direct" THEN Append(m_memory, m_answer') ELSE m_memory
    /\ UNCHANGED <<m_mode, m_acc, m_tokens, mrest>>

\* A callback, the memory or the LLM client raises. process_stream catches
\* it; the modes of process_with_mode let it pass to the caller.
ProcessRaises ==
    /\ m_pc \in {"begin", "streaming"}
    /\ m_done' = IF m_mode \in DoneOnException THEN Append(m_done, FailureResult) ELSE m_done
    /\ m_pc' = IF m_mode \in DoneOnException THEN "returned" ELSE "raised"
    /\ UNCHANGED <<m_mode, m_answer, m_acc, m_tokens, m_memory, mrest>>

NextModes ==
    \/ \E mode \in ProcessingModes : ProcessBegin(mode)
    \/ DirectStream
    \/ \E extracted \in ExtractedAnswers : RunSucceeds(extracted)
    \/ RunFails
    \/ PlanFails
    \/ \E answer \in ExtractedAnswers : PlanSucceeds(answer)
    \/ \E token \in StreamTokens : StreamToken(token)
    \/ StreamEnds
    \/ ProcessRaises

SpecModes == InitSmall /\ [][NextModes]_vars
\* ------------------------------------------- memory/manager.py: MemoryManager
\* self.max_long_term_memory = max_long_term_memory
max_long_term_memory == MaxLongTerm

\* A message is told from the others by its content, an archive record by
\* its end_time: both are serial numbers here. Every message has role user.
StoredMessage(k) == [role |-> "user", content |-> k]

\* What a caller or a memory file may supply: lists shorter and longer than
\* the two limits. The records of a supplied list start at 1001.
StoredMessages(n) == [i \in 1..n |-> StoredMessage(i)]
StoredRecords(n) == [i \in 1..n |-> 1000 + i]
SuppliedLengths(limit) == {0, limit + 1}
MemoryFiles ==
    { [conversation_history |-> StoredMessages(h), long_term_memory |-> StoredRecords(k)] :
        h \in SuppliedLengths(max_working_memory), k \in SuppliedLengths(max_long_term_memory) }

\* s[-n:] of a Python list.
PySuffix(s, n) ==
    IF n = 0 \/ n >= Len(s) THEN s ELSE SubSeq(s, Len(s) - n + 1, Len(s))

\* long_term_memory.append(record); while len(...) > max: pop(0)
RECURSIVE PopWhileOver(_)
PopWhileOver(s) ==
    IF Len(s) > max_long_term_memory THEN PopWhileOver(Tail(s)) ELSE s

ArchiveAppend(ltm, record) == PopWhileOver(Append(ltm, record))

\* for msg_data in ...: self.conversation_history.append(msg)
RECURSIVE AppendAll(_, _)
AppendAll(d, msgs) ==
    IF msgs = <<>> THEN d ELSE AppendAll(DequeAppend(d, Head(msgs)), Tail(msgs))

MemAddMessage ==
    /\ messages_added < MaxAdds
    /\ messages_added' = messages_added + 1
    /\ conversation_history' = DequeAppend(conversation_history, StoredMessage(messages_added'))
    /\ added_since_clear' = Append(added_since_clear, StoredMessage(messages_added'))
    /\ UNCHANGED <<long_term_memory, archives_made, memrest>>

ArchiveCurrentSession ==
    /\ archives_made < MaxArchives
    /\ archives_made' = archives_made + 1
    /\ long_term_memory' = ArchiveAppend(long_term_memory, archives_made')
    /\ UNCHANGED <<conversation_history, added_since_clear, messages_added, memrest>>

\* clear_conversation(archive): archive first when asked to, then clear.
MemClearConversation(archive) ==
    /\ archive => archives_made < MaxArchives
    /\ archives_made' = IF archive THEN archives_made + 1 ELSE archives_made
    /\ long_term_memory' =
           IF archive THEN ArchiveAppend(long_term_memory, archives_made') ELSE long_term_memory
    /\ conversation_history' = <<>>
    /\ added_since_clear' = <<>>
    /\ UNCHANGED <<messages_added, memrest>>

SetLongTermMemory(memory) ==
    /\ long_term_memory' = PySuffix(memory, max_long_term_memory)
    /\ UNCHANGED <<conversation_history, added_since_clear, messages_added, archives_made, memrest>>

\* load_from_file: the history is cleared and refilled entry by entry, then
\* the archive is taken from the file as it is. An entry that does not parse
\* ends the load where it stands: good entries have been appended.
LoadFromFile(file, good) ==
    /\ conversation_history' = AppendAll(<<>>, SubSeq(file.conversation_history, 1, good))
    /\ added_since_clear' = SubSeq(file.conversation_history, 1, good)
    /\ long_term_memory' =
           IF good = Len(file.conversation_history) THEN file.long_term_memory
           ELSE long_term_memory
    /\ UNCHANGED <<messages_added, archives_made, memrest>>

NextMemory ==
    \/ MemAddMessage
    \/ ArchiveCurrentSession
    \/ \E archive \in BOOLEAN : MemClearConversation(archive)
    \/ \E k \in SuppliedLengths(max_long_term_memory) : SetLongTermMemory(StoredRecords(k))
    \/ \E file \in MemoryFiles :
           \E good \in 0..Len(file.conversation_history) : LoadFromFile(file, good)

SpecMemory == InitSmall /\ [][NextMemory]_vars
\* ------------------ config/config_manager.py and web routes/model.py: /models
\* An api_key is the tuple of its pieces: "${" and "}" delimit a variable
\* name, "YOUR_" and "your_" are the template texts, "sk" is anything else.
ApiKeys ==
    { <<>>, <<"${", "API_KEY", "}">>, <<"YOUR_", "sk">>, <<"your_", "sk">>, <<"sk">> }

\* What the environment may hold for the variable: nothing, or a key.
EnvValues == { <<>>, <<"sk">> }

ConfiguredIds == {"gpt-4o-mini", "local"}

\* The "models" section of a configuration file: at least one model.
RawConfigs ==
    UNION { [D -> ApiKeys] : D \in (SUBSET ConfiguredIds) \ {{}} }

\* _replace_env_vars: ${VAR} becomes the variable's value when it has one
\* and stays as it is when it has none.
ReplaceEnvVars(key, env) ==
    IF Len(key) = 3 /\ key[1] = "${" /\ key[3] = "}" /\ env # <<>> THEN env ELSE key

\* str.upper() of one piece.
Upper(piece) == IF piece = "your_" THEN "YOUR_" ELSE piece

\* get_available_models as the class ends up defining it: the second
\* definition replaces the first, and lists every configured model.
GetAvailableModels(config) == DOMAIN config

\* The list the route answers with when no config manager is set.
FallbackModels == {"gpt-4o-mini", "gpt-4o", "claude-3-5-sonnet"}

\* ConfigManager.__init__ -> _load_config
LoadConfig(raw, env) ==
    /\ models_config = <<>>
    /\ environ' = env
    /\ models_config' = [id \in DOMAIN raw |-> ReplaceEnvVars(raw[id], env)]
    /\ UNCHANGED <<config_manager, models_served, cfrest>>

SetConfigManager ==
    /\ models_config # <<>>
    /\ ~config_manager
    /\ config_manager' = TRUE
    /\ UNCHANGED <<environ, models_config, models_served, cfrest>>

\* GET /models
ListModels ==
    /\ models_served' =
           IF config_manager THEN GetAvailableModels(models_config) ELSE FallbackModels
    /\ UNCHANGED <<environ, models_config, config_manager, cfrest>>

NextModels ==
    \/ \E raw \in RawConfigs : \E env \in EnvValues : LoadConfig(raw, env)
    \/ SetConfigManager
    \/ ListModels

SpecModels == InitSmall /\ [][NextModels]_vars
\* ---------------------------------- shuai_travel_agent/llm_client.py: chat
\* How one attempt ends: a response, an HTTP error status, a socket-level
\* fault, or any other exception.
AttemptOutcomes == {"ok", "HTTPError", "URLError", "Exception"}

\* if attempt < self.max_retries - 1: sleep and go round again
\* (attempt is the 0-based index of the attempt that failed).
RetriesAfter(attempt, outcome) == attempt < chat_max_retries - 1

ChatBegin(n) ==
    /\ chat_pc = "idle"
    /\ chat_max_retries' = n
    /\ chat_pc' = "loop"
    /\ UNCHANGED <<chat_attempts, chat_result, chatrest>>

\* One round of `for attempt in range(self.max_retries)`.
ChatAttempt(outcome) ==
    /\ chat_pc = "loop"
    /\ Len(chat_attempts) < chat_max_retries
    /\ chat_attempts' = Append(chat_attempts, outcome)
    /\ IF outcome = "ok"
       THEN /\ chat_result' = [success |-> TRUE, error |-> "none"]
            /\ chat_pc' = "returned"
       ELSE IF RetriesAfter(Len(chat_attempts), outcome)
       THEN UNCHANGED <<chat_result, chat_pc>>
       ELSE /\ chat_result' = [success |-> FALSE, error |-> outcome]
            /\ chat_pc' = "returned"
    /\ UNCHANGED <<chat_max_retries, chatrest>>

\* The loop ran out without a return: max_retries was 0.
ChatExhausted ==
    /\ chat_pc = "loop"
    /\ Len(chat_attempts) >= chat_max_retries
    /\ chat_result' = [success |-> FALSE, error |-> "exhausted"]
    /\ chat_pc' = "returned"
    /\ UNCHANGED <<chat_max_retries, chat_attempts, chatrest>>

NextChat ==
    \/ \E n \in 0..MaxRetries : ChatBegin(n)
    \/ \E outcome \in AttemptOutcomes : ChatAttempt(outcome)
    \/ ChatExhausted

SpecChat == InitSmall /\ [][NextChat]_vars
\* --------------------------- shuai_travel_agent/llm_client.py: chat_stream
\* A line of the upstream response: a data line with a content delta (its
\* text is <<content>>), a data line whose delta has no content, a data line
\* that is no JSON, the [DONE] marker, or a line that is no data line.
UpstreamLine(kind, content) == [kind |-> kind, content |-> content]
UpstreamLines ==
    { UpstreamLine("delta", 1), UpstreamLine("delta", 2), UpstreamLine("empty", 0),
      UpstreamLine("malformed", 0), UpstreamLine("done", 0), UpstreamLine("other", 0) }
Upstreams == UNION { [1..n -> UpstreamLines] : n \in 0..MaxLines }

\* The synthetic string of the except clauses.
ErrorString == <<0>>

StreamOpen(lines, fault) ==
    /\ cs_pc = "idle"
    /\ cs_upstream' = lines
    /\ cs_fault' = fault
    /\ cs_pc' = "reading"
    /\ UNCHANGED <<cs_read, cs_yielded, csrest>>

\* urlopen or the read of the next line raises: the except clauses yield
\* one string and the generator ends.
StreamFault ==
    /\ cs_pc = "reading"
    /\ cs_fault = cs_read + 1
    /\ cs_yielded' = Append(cs_yielded, ErrorString)
    /\ cs_pc' = "ended"
    /\ UNCHANGED <<cs_upstream, cs_fault, cs_read, csrest>>

\* One round of `for line in response`.
StreamLine ==
    /\ cs_pc = "reading"
    /\ cs_fault # cs_read + 1
    /\ cs_read < Len(cs_upstream)
    /\ cs_read' = cs_read + 1
    /\ LET line == cs_upstream[cs_read']
       IN  /\ cs_pc' = IF line.kind = "done" THEN "ended" ELSE "reading"
           /\ cs_yielded' =
                  IF line.kind = "delta" THEN Append(cs_yielded, <<line.content>>)
                  ELSE cs_yielded
    /\ UNCHANGED <<cs_upstream, cs_fault, csrest>>

\* The response is exhausted.
StreamExhausted ==
    /\ cs_pc = "reading"
    /\ cs_fault # cs_read + 1
    /\ cs_read = Len(cs_upstream)
    /\ cs_pc' = "ended"
    /\ UNCHANGED <<cs_upstream, cs_fault, cs_read, cs_yielded, csrest>>

NextChatStream ==
    \/ \E lines \in Upstreams : \E fault \in 0..(Len(lines) + 1) : StreamOpen(lines, fault)
    \/ StreamFault
    \/ StreamLine
    \/ StreamExhausted

SpecChatStream == InitSmall /\ [][NextChatStream]_vars
\* ------------------- react_agent.py: _think, _should_stop, _act, one by one
\* action_history[-1] when the history is empty.
NoAction == [tool_name |-> "", status |-> "NONE"]

\* thought.decision = None; a decision is otherwise the list of tool names of
\* its steps (a JSON text in the code: the text of an empty list is not None).
NoDecision == <<"None">>

\* Tools a plan may name: one of the three final tools and one other.
PlanTools == {"llm_chat", "search_cities"}
Plans == UNION { [1..n -> PlanTools] : n \in 0..MaxPlan }

FinalTools == {"llm_chat", "generate_city_recommendation", "generate_route_plan"}

Thought(type, confident, decision) ==
    [type |-> type, confident |-> confident, decision |-> decision]

\* _should_stop(thought): confident stands for thought.confidence > 0.9.
ShouldStop(th, last, step) ==
    \/ /\ th.type = "INFERENCE"
       /\ last # NoAction
       /\ last.tool_name \in FinalTools
       /\ last.status = "SUCCESS"
    \/ /\ th.confident
       /\ th.decision # NoDecision
       /\ last # NoAction
       /\ last.status = "SUCCESS"
    \/ step >= ra_max_steps - 1

\* _extract_action(thought): the tool of decisions[current_step] of this
\* thought's own decision, "none" where _act falls back on the no-op.
ExtractAction(th, step) ==
    IF th.decision = NoDecision \/ th.decision = <<>> THEN "none"
    ELSE IF step < Len(th.decision) THEN th.decision[step + 1]
    ELSE "none"

\* _build_result(): the history of the run, as recorded.
BuildResult(history) == [success |-> TRUE, history |-> history]

\* The record of run's except clause: success, error, task, steps_completed
\* and no history; result.get('history', []) reads it as the empty list.
ErrorResult == [success |-> FALSE, history |-> <<>>]

\* ReActAgent(max_steps=n) .run(...); the next run on the same agent starts
\* where the last one has left action_history.
RunStart(n) ==
    /\ \/ ra_pc = "idle"
       \/ ra_pc \in {"stopped", "failed"} /\ n = ra_max_steps
    /\ ra_runs < MaxRuns
    /\ ra_runs' = ra_runs + 1
    /\ ra_max_steps' = n
    /\ ra_step' = 0
    /\ ra_history' = <<>>
    /\ ra_result' = <<>>
    /\ ra_pc' = "think"
    /\ UNCHANGED <<last_action, thought, ra_plan, ra_outcome, ra_notified, rarest>>

\* _think at step 0: the analysis thought takes the plan's decision.
ThinkFirst(confident, plan) ==
    /\ ra_pc = "think"
    /\ ra_step = 0
    /\ thought' = Thought("ANALYSIS", confident, plan)
    /\ ra_plan' = plan
    /\ ra_pc' = "check"
    /\ UNCHANGED <<ra_runs, ra_max_steps, ra_step, last_action, ra_outcome, ra_notified,
                   ra_history, ra_result, rarest>>

\* _think at a later step: a reflection (confidence 0.6 or 0.9) after a
\* failure, an inference after a success (0.95), an inference (0.85) else.
ThinkNext ==
    /\ ra_pc = "think"
    /\ ra_step > 0
    /\ thought' =
           IF last_action # NoAction /\ last_action.status = "FAILED"
           THEN Thought("REFLECTION", FALSE, NoDecision)
           ELSE IF last_action # NoAction /\ last_action.status = "SUCCESS"
           THEN Thought("INFERENCE", TRUE, NoDecision)
           ELSE Thought("INFERENCE", FALSE, NoDecision)
    /\ ra_pc' = "check"
    /\ UNCHANGED <<ra_runs, ra_max_steps, ra_step, last_action, ra_plan, ra_outcome,
                   ra_notified, ra_history, ra_result, rarest>>

\* if self._should_stop(thought): break
CheckStop ==
    /\ ra_pc = "check"
    /\ IF ShouldStop(thought, last_action, ra_step)
       THEN /\ ra_pc' = "stopped"
            /\ ra_result' = BuildResult(ra_history)
       ELSE /\ ra_pc' = "act"
            /\ UNCHANGED ra_result
    /\ UNCHANGED <<ra_runs, ra_max_steps, ra_step, last_action, thought, ra_plan, ra_outcome,
                   ra_notified, ra_history, rarest>>

\* How a call of ToolRegistry.execute may end: the executor returns in time;
\* execute raises (unknown tool, missing parameter, the executor's exception,
\* the timeout of a coroutine executor); a synchronous executor outlasts the
\* tool's timeout and returns after it, which execute does not notice.
ExecOutcomes == {"returns", "raises", "overdue"}

\* _act: the extracted Action is marked running, appended and notified, then
\* executed and marked by how execute ended; without an extracted action the
\* no-op Action is recorded as a success and nobody is notified.
Act(outcome) ==
    /\ ra_pc = "act"
    /\ LET tool == ExtractAction(thought, ra_step)
       IN  IF tool = "none"
           THEN /\ last_action' = [tool_name |-> "none", status |-> "SUCCESS"]
                /\ ra_outcome' = "none"
                /\ ra_notified' = <<>>
           ELSE /\ last_action' =
                       [tool_name |-> tool,
                        status |-> IF outcome = "raises" THEN "FAILED" ELSE "SUCCESS"]
                /\ ra_outcome' = outcome
                /\ ra_notified' = <<"RUNNING">>
    /\ ra_pc' = "acted"
    /\ UNCHANGED <<ra_runs, ra_max_steps, ra_step, thought, ra_plan, ra_history, ra_result, rarest>>

\* _evaluate, _update_state, _record_history, and the loop's test.
UpdateState ==
    /\ ra_pc = "acted"
    /\ ra_history' = Append(ra_history, [step |-> ra_step, action |-> last_action])
    /\ ra_step' = ra_step + 1
    /\ IF ra_step' < ra_max_steps
       THEN /\ ra_pc' = "think"
            /\ UNCHANGED ra_result
       ELSE /\ ra_pc' = "stopped"
            /\ ra_result' = BuildResult(ra_history')
    /\ UNCHANGED <<ra_runs, ra_max_steps, last_action, thought, ra_plan, ra_outcome,
                   ra_notified, rarest>>

\* An exception escapes the loop (the think-stream callback, the thought
\* engine or _extract_action raises): run's except clause returns.
RunRaises ==
    /\ ra_pc \in {"think", "check", "act", "acted"}
    /\ ra_result' = ErrorResult
    /\ ra_pc' = "failed"
    /\ UNCHANGED <<ra_runs, ra_max_steps, ra_step, last_action, thought, ra_plan, ra_outcome,
                   ra_notified, ra_history, rarest>>

NextReact ==
    \/ \E n \in 1..MaxSteps : RunStart(n)
    \/ \E confident \in BOOLEAN : \E plan \in Plans : ThinkFirst(confident, plan)
    \/ ThinkNext
    \/ CheckStop
    \/ \E outcome \in ExecOutcomes : Act(outcome)
    \/ UpdateState
    \/ RunRaises

SpecReact == InitSmall /\ [][NextReact]_vars
\* ------------- react_agent.py: _extract_action's params, execute's check
\* The tools create_travel_tools registers, with their required_params.
TravelTools ==
    {"search_cities", "query_attractions", "generate_route", "calculate_budget",
     "get_city_info", "llm_chat", "generate_city_recommendation", "generate_route_plan"}

RequiredParams(tool) ==
    CASE tool = "search_cities" -> {}
      [] tool = "query_attractions" -> {"cities"}
      [] tool = "generate_route" -> {"city"}
      [] tool = "calculate_budget" -> {"city", "days"}
      [] tool = "get_city_info" -> {"city"}
      [] tool = "llm_chat" -> {"query"}
      [] tool = "generate_city_recommendation" -> {"user_query", "available_cities"}
      [] tool = "generate_route_plan" -> {"city", "days"}

\* The parameter names of a plan step: the required ones and the aliases.
ParamNames ==
    {"city", "destination", "location", "cities", "days", "query", "user_query",
     "available_cities"}

\* A value is a str or it is not.
ValueKinds == {"str", "other"}

Param(k, v) == [key |-> k, value |-> v]

\* A step's params: a dict, its keys distinct, in the order of the plan's JSON.
StepParams ==
    { ps \in UNION { [1..n -> [key : ParamNames, value : ValueKinds]] : n \in 0..MaxParams } :
        \A i, j \in 1..Len(ps) : i # j => ps[i].key # ps[j].key }

Keys(ps) == { ps[i].key : i \in 1..Len(ps) }

\* param_mapping.get(k, k)
param_mapping(k) == IF k \in {"city", "destination", "location"} THEN "cities" ELSE k

EmptyDict == [k \in {} |-> "str"]

\* d[k] = v
DictSet(d, k, v) == [x \in DOMAIN d \cup {k} |-> IF x = k THEN v ELSE d[x]]

\* for k, v in params.items(): the key is renamed, a str meant for 'cities'
\* is wrapped into a list, and the entry is stored under the new key.
RECURSIVE MapInto(_, _)
MapInto(mapped_params, ps) ==
    IF ps = <<>> THEN mapped_params
    ELSE LET mapped_key == param_mapping(Head(ps).key)
             v == IF mapped_key = "cities" /\ Head(ps).value = "str"
                  THEN "list" ELSE Head(ps).value
         IN  MapInto(DictSet(mapped_params, mapped_key, v), Tail(ps))

MappedParams(ps) == MapInto(EmptyDict, ps)

\* The planner's decision for the current step names a tool and its params.
PlanDecision(tool, ps) ==
    /\ ea_pc = "idle"
    /\ ea_tool' = tool
    /\ ea_params' = ps
    /\ ea_parameters' = EmptyDict
    /\ ea_pc' = "decided"
    /\ UNCHANGED earest

\* _extract_action builds the Action.
BuildAction ==
    /\ ea_pc = "decided"
    /\ ea_parameters' = MappedParams(ea_params)
    /\ ea_pc' = "extracted"
    /\ UNCHANGED <<ea_tool, ea_params, earest>>

\* execute: for param in tool_info.required_params: if param not in params: raise
CheckRequired ==
    /\ ea_pc = "extracted"
    /\ ea_pc' = IF \A param \in RequiredParams(ea_tool) : param \in DOMAIN ea_parameters
                THEN "passed" ELSE "rejected"
    /\ UNCHANGED <<ea_tool, ea_params, ea_parameters, earest>>

NextExtract ==
    \/ \E tool \in TravelTools, ps \in StepParams : PlanDecision(tool, ps)
    \/ BuildAction
    \/ CheckRequired

SpecExtract == InitSmall /\ [][NextExtract]_vars
\* ------------------------------- travel_agent.py: _process_plan_mode's steps
\* What a step's action may be: a registered tool, 'none', or a name the
\* registry does not know.
PlanActions == TravelTools \cup {"none", "no_such_tool"}

PlanSteps == UNION { [1..n -> PlanActions] : n \in 0..MaxPlan }

\* tool_registry.get_tool(name): the ToolInfo registered under the name, or None.
GetTool(name) == IF name \in TravelTools THEN <<name>> ELSE <<>>

\* The fields of the dataclass ToolInfo; it defines no method.
ToolInfoAttributes ==
    {"name", "description", "parameters", "required_params", "timeout", "category", "tags"}

\* ToolInfo defines no __call__: calling an instance raises TypeError.
ToolInfoCallable == FALSE

\* One pass through the step loop's body: whether the tool's executor is
\* invoked, and the result the step records.
\*   result = {'success': False}
\*   if action_name and action_name != 'none':
\*       tool = get_tool(action_name)
\*       if tool:
\*           try: result = await tool.execute(**params) if hasattr(tool, 'execute') else tool(params)
\*           except Exception as e: result = {'success': False, 'error': str(e)}
StepOutcome(action_name) ==
    IF action_name # "none" /\ GetTool(action_name) # <<>>
    THEN IF "execute" \in ToolInfoAttributes \/ ToolInfoCallable
         THEN [invoked |-> TRUE, result |-> "executor_result"]
         ELSE [invoked |-> FALSE, result |-> "error"]
    ELSE [invoked |-> FALSE, result |-> "not_run"]

\* steps = plan_data.get('steps', [])
PlanParsed(steps) ==
    /\ pl_pc = "idle"
    /\ pl_steps' = steps
    /\ pl_pc' = "steps"
    /\ UNCHANGED <<pl_invoked, pl_history, pl_answers, plrest>>

\* for i, step in enumerate(steps): ... history.append(...)
PlanStepRun ==
    /\ pl_pc = "steps"
    /\ Len(pl_history) < Len(pl_steps)
    /\ LET action_name == pl_steps[Len(pl_history) + 1]
           outcome == StepOutcome(action_name)
       IN  /\ pl_invoked' = IF outcome.invoked THEN Append(pl_invoked, action_name) ELSE pl_invoked
           /\ pl_history' = Append(pl_history, [action |-> action_name, result |-> outcome.result])
    /\ UNCHANGED <<pl_pc, pl_steps, pl_answers, plrest>>

\* After the loop the answer is generated and handed to answer_callback.
PlanAnswer ==
    /\ pl_pc = "steps"
    /\ Len(pl_history) = Len(pl_steps)
    /\ pl_answers' = Append(pl_answers, Len(pl_history))
    /\ pl_pc' = "answered"
    /\ UNCHANGED <<pl_steps, pl_invoked, pl_history, plrest>>

NextPlan ==
    \/ \E steps \in PlanSteps : PlanParsed(steps)
    \/ PlanStepRun
    \/ PlanAnswer

SpecPlan == InitSmall /\ [][NextPlan]_vars
\* --------------------------- shuai_travel_agent/app.py: the session map
SessionNames == {"trip"}
NoName == ""
SessionModels == {"default", "gpt-4o"}

\* The record get_or_create_session and create_session store for a new id.
FreshSession(t) == [name |-> NoName, model_id |-> "default", message_count |-> 0, last_active |-> t]

\* sessions[sid] = data
SessionsSet(sid, data) == [x \in DOMAIN sessions \cup {sid} |-> IF x = sid THEN data ELSE sessions[x]]

\* del sessions[sid] for every sid of gone
SessionsDel(gone) == [x \in DOMAIN sessions \ gone |-> sessions[x]]

\* clean_expired_sessions: the ids whose last_active lies more than
\* SESSION_TIMEOUT seconds back.
ExpiredSessions ==
    { sid \in DOMAIN sessions : se_now - sessions[sid].last_active > SESSION_TIMEOUT }

\* Time passes between two requests.
ClockAdvance ==
    /\ se_now + ClockTick <= MaxClock
    /\ se_now' = se_now + ClockTick
    /\ se_last_op' = "none"
    /\ UNCHANGED <<sessions, se_created, serest>>

\* POST /api/session/new
CreateSession ==
    /\ se_created < MaxSessions
    /\ se_created' = se_created + 1
    /\ sessions' = SessionsSet(se_created', FreshSession(se_now))
    /\ se_last_op' = "create"
    /\ UNCHANGED <<se_now, serest>>

\* POST /api/chat/stream: get_or_create_session(request.session_id), then the
\* generator's update of message_count and last_active. session_id 0 is None.
ChatStream(session_id) ==
    /\ IF session_id = 0 \/ session_id \notin DOMAIN sessions
       THEN /\ se_created < MaxSessions
            /\ se_created' = se_created + 1
            /\ sessions' = SessionsSet(se_created',
                               [FreshSession(se_now) EXCEPT !.message_count = 1])
       ELSE /\ sessions[session_id].message_count < MaxMessages
            /\ sessions' = [sessions EXCEPT ![session_id].message_count = @ + 1,
                                            ![session_id].last_active = se_now]
            /\ UNCHANGED se_created
    /\ se_last_op' = "chat"
    /\ UNCHANGED <<se_now, serest>>

\* GET /api/sessions: clean_expired_sessions(), then the list.
ListSessions ==
    /\ sessions' = SessionsDel(ExpiredSessions)
    /\ se_last_op' = "list"
    /\ UNCHANGED <<se_now, se_created, serest>>

\* DELETE /api/session/{session_id}
DeleteSession(session_id) ==
    /\ session_id \in DOMAIN sessions
    /\ sessions' = SessionsDel({session_id})
    /\ se_last_op' = "delete"
    /\ UNCHANGED <<se_now, se_created, serest>>

\* PUT /api/session/{session_id}/name
UpdateSessionName(session_id, name) ==
    /\ session_id \in DOMAIN sessions
    /\ sessions' = [sessions EXCEPT ![session_id].name = name]
    /\ se_last_op' = "rename"
    /\ UNCHANGED <<se_now, se_created, serest>>

\* POST /api/clear
ClearConversation(session_id) ==
    /\ session_id \in DOMAIN sessions
    /\ sessions' = [sessions EXCEPT ![session_id].message_count = 0]
    /\ se_last_op' = "clear"
    /\ UNCHANGED <<se_now, se_created, serest>>

\* PUT /api/session/{session_id}/model
SetSessionModel(session_id, model_id) ==
    /\ session_id \in DOMAIN sessions
    /\ sessions' = [sessions EXCEPT ![session_id].model_id = model_id]
    /\ se_last_op' = "set_model"
    /\ UNCHANGED <<se_now, se_created, serest>>

NextSessions ==
    \/ ClockAdvance
    \/ CreateSession
    \/ \E session_id \in 0..MaxSessions : ChatStream(session_id)
    \/ ListSessions
    \/ \E session_id \in 1..MaxSessions : DeleteSession(session_id)
    \/ \E session_id \in 1..MaxSessions, name \in SessionNames : UpdateSessionName(session_id, name)
    \/ \E session_id \in 1..MaxSessions : ClearConversation(session_id)
    \/ \E session_id \in 1..MaxSessions, model_id \in SessionModels :
           SetSessionModel(session_id, model_id)

SpecSessions == InitSmall /\ [][NextSessions]_vars
\* ====================================================== properties
IsTerminal(f) == f.type \in TerminalTypes

AnswerContents(fs) ==
    LET a == SelectSeq(fs, LAMBDA f : f.type = "answer")
    IN  [i \in 1..Len(a) |-> a[i].content]

Count(fs, Test(_)) == Cardinality({i \in 1..Len(fs) : Test(fs[i])})

\* thinking_start (thinking_chunk* thinking_end)? (answer_start answer*)? (done|error)
P1Step(q, t) ==
    CASE q = "begin"    /\ t = "thinking_start"           -> "started"
      [] q = "started"  /\ t = "thinking_chunk"           -> "thinking"
      [] q = "started"  /\ t = "thinking_end"             -> "thought"
      [] q = "started"  /\ t = "answer_start"             -> "answering"
      [] q = "started"  /\ t \in TerminalTypes            -> "end"
      [] q = "thinking" /\ t = "thinking_chunk"           -> "thinking"
      [] q = "thinking" /\ t = "thinking_end"             -> "thought"
      [] q = "thought"  /\ t = "answer_start"             -> "answering"
      [] q = "thought"  /\ t \in TerminalTypes            -> "end"
      [] q = "answering" /\ t = "answer"                  -> "answering"
      [] q = "answering" /\ t \in TerminalTypes           -> "end"
      [] OTHER                                            -> "reject"

RECURSIVE P1Run(_, _)
P1Run(q, ts) == IF ts = <<>> THEN q ELSE P1Run(P1Step(q, Head(ts)), Tail(ts))

MatchesP1(ts) == P1Run("begin", ts) = "end"

\* C1: the chunk_type sequence of every stream that reached its end has the
\* form thinking_start (thinking_chunk* thinking_end)? (answer_start answer*)?
\* (done|error).
C1_FrameGrammar ==
    \A r \in Requests : hpc[r] = "finished" => MatchesP1(Types(frames[r]))

\* C2: no thinking_chunk frame follows a thinking_end or an answer_start frame.
C2_NoThinkingAfterBoundary ==
    \A r \in Requests : \A i, j \in 1..Len(frames[r]) :
        (i < j /\ frames[r][i].type \in {"thinking_end", "answer_start"})
            => frames[r][j].type # "thinking_chunk"

\* C3: a stream whose frame loop has exited and that has reached its end holds
\* exactly one terminal frame, and is_last is true on it and false elsewhere.
C3_OneTerminal ==
    \A r \in Requests : hpc[r] = "finished" =>
        /\ Count(frames[r], IsTerminal) = 1
        /\ \A i \in 1..Len(frames[r]) : frames[r][i].is_last <=> IsTerminal(frames[r][i])

\* A stream whose loop delivered answer frames and whose error exit then sent
\* the terminal frame.
C3_Witness ==
    /\ hpc[1] = "finished"
    /\ frames[1][Len(frames[1])].type = "error"
    /\ \E i \in 1..Len(frames[1]) : frames[1][i].type = "answer"

HasTerminal(fs) == \E i \in 1..Len(fs) : IsTerminal(fs[i])

HasDone(evs) == \E i \in 1..Len(evs) : evs[i].type = "done"

\* C4: once StreamMessage has yielded done or error it yields nothing more;
\* once generate_chat_stream has emitted done it emits no further event and
\* takes no further RPC frame.
C4_NothingAfterTerminal ==
    [][ /\ \A r \in Requests : HasTerminal(frames[r]) => frames'[r] = frames[r]
        /\ HasDone(sse) => (sse' = sse /\ gw_read' = gw_read) ]_vars

\* The gateway has forwarded the Agent's done, with the handler at its end.
C4_Witness ==
    /\ hpc[1] = "finished"
    /\ gpc = "finished"
    /\ gw_read = Len(frames[1])
    /\ frames[1][gw_read].type = "done"
    /\ sse[Len(sse)].type = "done"

\* C5: at the end of a stream the contents of its answer frames, in order,
\* are the tokens the worker passed to answer_callback.
C5_AnswersAreTokens ==
    \A r \in Requests : hpc[r] = "finished" => AnswerContents(frames[r]) = tokens_sent[r]

\* A finished stream that delivered one thought only, so whose loop dequeued at
\* most one token before done was seen: the other tokens came out of the drain.
C5_Witness ==
    /\ hpc[1] = "finished"
    /\ thought_count[1] >= 2
    /\ Len(thinking_queue[1]) = thought_count[1] - 1
    /\ Len(tokens_sent[1]) >= 2
    /\ frames[1][Len(frames[1])].type = "done"

\* C6: every thinking_chunk of a stream carries a thought of that stream's run.
C6_ThoughtsStayInRun ==
    \A r \in Requests : \A i \in 1..Len(frames[r]) :
        frames[r][i].type = "thinking_chunk" => frames[r][i].content[1] = r

\* process_stream is executing on the worker of request r.
InOrchestrator(r) == wpc[r] \notin {"idle", "finished"}

\* C7: two requests of one session never execute the orchestrator together.
C7_OneRunPerSession ==
    \A r1, r2 \in Requests :
        (r1 # r2 /\ req_session[r1] = req_session[r2])
            => ~(InOrchestrator(r1) /\ InOrchestrator(r2))

\* The run of request r has its context and is being served.
Serving(r) == wpc[r] \notin {"idle", "start", "finished"}

\* C8: while a request is served, the conversation history holds no user
\* message of another session and the preference context reflects none.
C8_MemoryPerSession ==
    \A r \in Requests : Serving(r) =>
        /\ \A i \in 1..Len(conversation_history) :
               conversation_history[i].role = "user"
                   => conversation_history[i].session = req_session[r]
        /\ ctx_pref[r] \subseteq {req_session[r]}

\* C9: neither queue of a handler ever holds more than the capacity.
C9_QueuesBounded ==
    \A r \in Requests :
        /\ Len(answer_queue[r]) <= QueueCapacity
        /\ Len(thinking_queue[r]) <= QueueCapacity

EventTypes(evs) == [i \in 1..Len(evs) |-> evs[i].type]

WithoutHeartbeats(ts) == SelectSeq(ts, LAMBDA t : t # "heartbeat")

\* session_id reasoning_start (reasoning_chunk* reasoning_end)? (answer_start chunk*)? done
P2Step(q, t) ==
    CASE q = "begin"    /\ t = "session_id"               -> "session"
      [] q = "session"  /\ t = "reasoning_start"          -> "started"
      [] q = "started"  /\ t = "reasoning_chunk"          -> "thinking"
      [] q = "started"  /\ t = "reasoning_end"            -> "thought"
      [] q = "started"  /\ t = "answer_start"             -> "answering"
      [] q = "started"  /\ t = "done"                     -> "end"
      [] q = "thinking" /\ t = "reasoning_chunk"          -> "thinking"
      [] q = "thinking" /\ t = "reasoning_end"            -> "thought"
      [] q = "thought"  /\ t = "answer_start"             -> "answering"
      [] q = "thought"  /\ t = "done"                     -> "end"
      [] q = "answering" /\ t = "chunk"                   -> "answering"
      [] q = "answering" /\ t = "done"                    -> "end"
      [] OTHER                                            -> "reject"

RECURSIVE P2Run(_, _)
P2Run(q, ts) == IF ts = <<>> THEN q ELSE P2Run(P2Step(q, Head(ts)), Tail(ts))

MatchesP2(ts) == P2Run("begin", ts) = "end"

ErrorSuffix == <<"reasoning_chunk", "reasoning_end", "answer_start", "chunk", "done">>

EndsWith(ts, suffix) ==
    /\ Len(ts) >= Len(suffix)
    /\ SubSeq(ts, Len(ts) - Len(suffix) + 1, Len(ts)) = suffix

\* heartbeat only after session_id and before the terminal event
HeartbeatsInside(ts) ==
    \A i \in 1..Len(ts) : ts[i] = "heartbeat" =>
        /\ \E j \in 1..(i - 1) : ts[j] = "session_id"
        /\ \A j \in 1..(i - 1) : ts[j] # "done"

\* C10: an SSE stream that no client disconnect cut short is session_id
\* reasoning_start (reasoning_chunk* reasoning_end)? (answer_start chunk*)? done
\* or ends with the error suffix, heartbeats lying between session_id and done.
C10_SseGrammar ==
    gpc = "finished" =>
        LET ts == EventTypes(sse)
        IN  /\ MatchesP2(WithoutHeartbeats(ts)) \/ EndsWith(WithoutHeartbeats(ts), ErrorSuffix)
            /\ HeartbeatsInside(ts)


\* C11: a stream that ended after the gateway took an error frame ends with
\* reasoning_chunk, reasoning_end, answer_start, chunk, done; and every stream
\* that ended without a client disconnect has done as its last event.
C11_ErrorFrameEndsWithDone ==
    gpc = "finished" =>
        /\ sse[Len(sse)].type = "done"
        /\ (gw_read > 0 /\ frames[1][gw_read].type = "error")
               => EndsWith(EventTypes(sse), ErrorSuffix)

\* C12: the pass of the loop that finds the client disconnected emits nothing
\* and ends the stream; from then on no event is emitted, no frame is taken
\* and the stream stays ended.
C12_SilentAfterDisconnect ==
    [][ /\ (disconnected /\ gw_read' # gw_read) => (sse' = sse /\ gpc' = "cut")
        /\ gpc = "cut" => (sse' = sse /\ gw_read' = gw_read /\ gpc' = "cut") ]_vars

\* The gateway has left a stream the client closed, some events sent already,
\* while the Agent went on sending frames that nobody takes.
C12_Witness ==
    /\ gpc = "cut"
    /\ Len(sse) >= 2
    /\ Len(frames[1]) > gw_read + 1

\* C13: while the stream is open, never more than the heartbeat interval
\* passes without an event: a silence of the Agent that reaches the interval
\* is broken by a heartbeat, no frame being needed for it.
C13_HeartbeatDuringSilence ==
    gpc = "read" => now - last_emit <= HeartbeatInterval

\* The step yields a heartbeat event.
YieldsHeartbeat ==
    \E i \in (Len(sse) + 1)..Len(sse') : sse'[i].type = "heartbeat"

\* C14: a heartbeat is yielded only when the heartbeat interval has passed
\* since the latest event of the stream, translated frames included.
C14_HeartbeatOnlyAfterQuiet ==
    [][ YieldsHeartbeat => now - last_emit >= HeartbeatInterval ]_vars

C16_RequestTimeout ==
    gpc \in {"open", "read"} => now <= timeout_seconds

\* Empty, whitespace only, or longer than the limit.
MustReject(m) == m.core = 0 \/ m.lead + m.core + m.trail > 5000

C18_SessionIdFirst ==
    /\ sse # <<>> =>
           /\ sse[1] = Event("session_id", <<gw_session>>)
           /\ gw_supplied # NoSession => gw_session = gw_supplied /\ session_store = {}
           /\ gw_supplied = NoSession => gw_session \in session_store \ Sessions
    /\ (gpc = "read" \/ hpc[1] # "idle") => sse # <<>>

\* The Agent serves a request that came with a session id of its own.
C18_Witness ==
    /\ gw_supplied = 1
    /\ Len(sse) >= 2
    /\ hpc[1] # "idle"
    /\ req_session[1] = 1

\* ReActAgent.run has returned, or raised into process_stream.
RunEnded(r) == wpc[r] \in {"completed", "tokens", "finished"}

\* C19: a run thinks at most max_steps times, and every run that was started
\* ends, whatever the tools' executors do.
C19_RunTerminates ==
    /\ [](\A r \in Requests : thought_count[r] <= max_steps)
    /\ \A r \in Requests : (wpc[r] = "run_init") ~> RunEnded(r)

\* The loop is awaiting an executor whose timeout has elapsed.
WaitingPastTimeout(r) == wpc[r] = "exec_overdue"

\* C20: the loop never waits for an executor beyond its timeout: when the
\* timeout elapses the Action fails and the loop goes on.
C20_ToolTimeoutEnforced ==
    \A r \in Requests : ~WaitingPastTimeout(r)
\* C23: a stream that has reached its end without a thinking_chunk frame
\* holds no thinking_end frame, whether it ended with done or with error.
C23_NoThinkingEndWithoutThought ==
    \A r \in Requests :
        (hpc[r] = "finished" /\ ~thinking_sent[r]) =>
            \A i \in 1..Len(frames[r]) : frames[r][i].type # "thinking_end"
\* C21: when a call of process_with_mode or process_stream is over, returned
\* or raised, done_callback has been called exactly once.
C21_DoneCalledOnce ==
    m_pc \in {"returned", "raised"} => Len(m_done) = 1

MostRecent(s, n) == IF Len(s) <= n THEN s ELSE SubSeq(s, Len(s) - n + 1, Len(s))

\* C24: the working memory never holds more than max_working_memory messages,
\* and holds exactly the most recent messages appended since the history was
\* last cleared, in the order they were appended.
C24_WorkingMemoryWindow ==
    /\ Len(conversation_history) <= max_working_memory
    /\ conversation_history = MostRecent(added_since_clear, max_working_memory)

C24_Witness ==
    /\ Len(added_since_clear) > max_working_memory
    /\ Len(conversation_history) = max_working_memory
    /\ messages_added > max_working_memory

\* C25: the long-term archive never holds more than max_long_term_memory records.
C25_ArchiveBounded ==
    Len(long_term_memory) <= max_long_term_memory
\* The api_key a model id resolves to: the configured one, none otherwise.
ResolvedKey(id) ==
    IF models_config # <<>> /\ id \in DOMAIN models_config THEN models_config[id] ELSE <<>>

UnresolvedPlaceholder(key) == Len(key) >= 2 /\ key[1] = "${" /\ key[Len(key)] = "}"

ContainsTemplate(key) == \E i \in 1..Len(key) : Upper(key[i]) = "YOUR_"

\* C26: no model of a /models response has an api_key that is empty, an
\* unresolved ${VAR} placeholder, or a YOUR_ template.
C26_OnlyActiveModelsServed ==
    \A id \in models_served :
        LET key == ResolvedKey(id)
        IN  key # <<>> /\ ~UnresolvedPlaceholder(key) /\ ~ContainsTemplate(key)
\* C27: an attempt answered with an HTTP error status is the last attempt,
\* and chat returns success = false carrying that error; chat never makes
\* more than max_retries attempts.
C27_HttpErrorIsTerminal ==
    /\ Len(chat_attempts) <= chat_max_retries
    /\ \A i \in 1..Len(chat_attempts) :
           chat_attempts[i] = "HTTPError" =>
               /\ i = Len(chat_attempts)
               /\ chat_pc = "returned"
               /\ chat_result = [success |-> FALSE, error |-> "HTTPError"]
\* C28: once a data line that does not parse has been read, chat_stream has
\* ended and the last string it yielded is the synthetic error string.
C28_ParseErrorEndsStream ==
    \A i \in 1..cs_read :
        cs_upstream[i].kind = "malformed" =>
            /\ cs_pc = "ended"
            /\ cs_yielded # <<>>
            /\ cs_yielded[Len(cs_yielded)] = ErrorString
\* The three stop conditions, as they are stated.
StopConditions ==
    \/ /\ last_action # NoAction
       /\ last_action.tool_name \in FinalTools
       /\ last_action.status = "SUCCESS"
    \/ /\ thought.confident
       /\ thought.decision # NoDecision
       /\ last_action # NoAction
       /\ last_action.status = "SUCCESS"
    \/ ra_step >= ra_max_steps - 1

\* C29: once the thought has been judged, the loop has stopped exactly when
\* one of the three stop conditions holds, and goes on to Act otherwise.
C29_StopsExactlyOnConditions ==
    ra_pc \in {"act", "stopped"} /\ ra_step < ra_max_steps =>
        (ra_pc = "stopped" <=> StopConditions)

\* C30: the Action recorded by Act in iteration k is the tool of element k
\* of the plan when the plan has one, and the no-op only when it has none.
C30_ActFollowsPlan ==
    ra_pc = "acted" =>
        last_action.tool_name =
            IF ra_step < Len(ra_plan) THEN ra_plan[ra_step + 1] ELSE "none"
\* C31: an Action whose invocation timed out or raised is marked Failed, and
\* the thought of the next iteration of the run is a Reflection.
C31_FailureLeadsToReflection ==
    /\ (ra_pc = "acted" /\ ra_outcome \in {"raises", "overdue"}) =>
           last_action.status = "FAILED"
    /\ (ra_pc = "check" /\ ra_step > 0 /\ ra_outcome \in {"raises", "overdue"}) =>
           thought.type = "REFLECTION"

\* C32: when an exception has ended the run, the result lists the history
\* entries recorded before it.
C32_FailedRunKeepsHistory ==
    ra_pc = "failed" =>
        /\ ~ra_result.success
        /\ ra_result.history = ra_history

\* C33: when an executed Action has reached Success or Failed, the action
\* callbacks have seen it Running and then in that terminal status.
C33_CallbacksSeeTerminalStatus ==
    (ra_pc = "acted" /\ ra_outcome # "none") =>
        ra_notified = <<"RUNNING", last_action.status>>

\* C39: in the first iteration of every run there is no previous Action.
C39_RunStartsClean ==
    (ra_step = 0 /\ ra_pc \in {"think", "check"}) => last_action = NoAction
\* C34: when the worker has reported a failure (on_done got a result with
\* success false, or run_agent caught an exception), whatever its error text,
\* the stream ends with an error frame with is_last true, not with done.
C34_FailureEndsWithError ==
    \A r \in Requests : (hpc[r] = "finished" /\ error_holder[r] # <<>>) =>
        /\ frames[r][Len(frames[r])].type = "error"
        /\ frames[r][Len(frames[r])].is_last
        /\ \A i \in 1..Len(frames[r]) : frames[r][i].type # "done"

\* C37: when the handler returns, no thought is left in its thinking queue.
C37_ThoughtsAllDelivered ==
    \A r \in Requests : hpc[r] = "finished" => thinking_queue[r] = <<>>
\* C38: after a successful call of process_stream the assistant message it
\* appended to the memory is the answer delivered: the concatenation of the
\* tokens handed to answer_callback, and the answer of the final result.
C38_MemoryHoldsDeliveredAnswer ==
    (m_mode = "stream" /\ m_pc = "returned" /\ m_done # <<>> /\ m_done[1].success) =>
        /\ m_memory = <<Concat(m_tokens)>>
        /\ m_memory = <<m_done[1].answer>>
\* C40: an Action built from a plan step that supplies every required
\* parameter of its tool under its declared name passes execute's check.
C40_AliasKeepsRequiredParams ==
    (ea_pc \in {"passed", "rejected"} /\ RequiredParams(ea_tool) \subseteq Keys(ea_params)) =>
        ea_pc = "passed"
IsRegistered(name) == name \in TravelTools

\* C35: in plan mode every step naming a registered tool invokes that tool's
\* executor once, in plan order, and records the executor's result; the
\* answer goes to answer_callback after the last step.
C35_PlanStepsInvokeTools ==
    pl_pc = "answered" =>
        /\ pl_invoked = SelectSeq(pl_steps, IsRegistered)
        /\ \A i \in 1..Len(pl_history) :
               IsRegistered(pl_steps[i]) => pl_history[i].result = "executor_result"
        /\ pl_answers = <<Len(pl_steps)>>
\* C36: after a session list operation and after a session mutation (create,
\* rename, set model, clear, chat touch) the session map holds no session whose
\* last-active time is more than SESSION_TIMEOUT seconds back.
C36_NoExpiredSessionAfterOperation ==
    se_last_op \in {"list", "create", "rename", "set_model", "clear", "chat"} =>
        \A sid \in DOMAIN sessions : se_now - sessions[sid].last_active <= SESSION_TIMEOUT
====
